---- MODULE Spec2Model ----
(***************************************************************************)
(* Model of nmostesting/suites/IS1202Test.py: the IS-12 device model       *)
(* reconstruction (nc_object_factory, query_device_model), the structural  *)
(* descriptor validator (validate_descriptor), the constrained property     *)
(* discovery (_findConstrainedProperties) and the constraint probe          *)
(* (test_01 with _check_parameter_constraints_number and                    *)
(* _check_constrained_parameter).                                           *)
(*                                                                         *)
(* Conventions.  Python None is the empty tuple <<>> and a present value x *)
(* is <<x>>, so that optional integers, strings and dictionaries compare   *)
(* with = .  A Python number is held in half units (h = 2 * value),        *)
(* because the probe writes new_value + step / 2.  A Python string is a    *)
(* sequence of one character strings.                                       *)
(***************************************************************************)
EXTENDS Integers, Sequences, FiniteSets, TLC

VARIABLES
    device,                 \* the Node under test: its blocks, classes, datatypes (input)
    value,                  \* device side: the current value of each probed property
    writes,                 \* device side: every set_property request received, in order
    pc,                     \* position of test_01
    constrained_properties, \* test_01: result of _findConstrainedProperties
    selected_properties,    \* test_01: the records chosen for probing
    idx,                    \* test_01: index of constrained_property in selected_properties
    constraints,            \* test_01: the raw constraint chosen for the current record
    constraint_type,        \* test_01: 'runtime' | 'property' | 'datatype'
    parameter_constraint,   \* test_01: upcast_parameter_constraint(constraints)
    original_value,         \* test_01: cached original property value
    new_value,              \* test_01 / _check_parameter_constraints_number: new_value
    neg,                    \* test_01: index of negative_example in negative_examples
    constraint_error,       \* self.constraint_error
    constraint_error_msg,   \* self.constraint_error_msg, one entry per appended message
    result,                 \* what test_01 returned (or the exception that left it)
    device_model,           \* self.device_model
    device_model_metadata,  \* self.device_model_metadata
    query_result,           \* graph: what query_device_model returned or raised
    queries,                \* graph: number of calls of query_device_model so far
    reference,              \* validator: the reference descriptor
    descriptor,             \* validator: the observed descriptor
    validation,             \* validator: outcome of validate_descriptor
    reference_descriptors,  \* validate_model_definitions: the reference descriptors by key
    descriptors,            \* validate_model_definitions: the observed descriptors by key
    datatype_schemas,       \* self.datatype_schemas, by schema name
    results,                \* what validate_model_definitions returned or raised
    manager                 \* what get_manager returned or raised

vars == <<device, value, writes, pc, constrained_properties, selected_properties, idx,
          constraints, constraint_type, parameter_constraint, original_value, new_value,
          neg, constraint_error, constraint_error_msg, result,
          device_model, device_model_metadata, query_result, queries,
          reference, descriptor, validation,
          reference_descriptors, descriptors, datatype_schemas, results, manager>>

probeVars == <<device, value, writes, pc, constrained_properties, selected_properties,
               idx, constraints, constraint_type, parameter_constraint, original_value,
               new_value, neg, constraint_error, constraint_error_msg, result>>

graphVars == <<device_model, device_model_metadata, query_result, queries>>

validatorVars == <<reference, descriptor, validation>>

definitionVars == <<reference_descriptors, descriptors, datatype_schemas, results>>

managerVars == <<manager>>

(***************************************************************************)
(* Bounds of the model.                                                    *)
(***************************************************************************)
\* the largest number of worker objects of a device
MaxMembers == 2

\* the deepest nesting of blocks below the root block
MaxDepth == 2

\* the largest number of property fetches the device fails during one query
MaxFails == 1

\* the largest number of calls of query_device_model
MaxQueries == 2

\* the longest list of a descriptor given to validate_descriptor
MaxItems == 2

\* the largest number of keys of the reference descriptors of validate_model_definitions
MaxKeys == 2

(***************************************************************************)
(* Python values.                                                          *)
(***************************************************************************)
None == <<>>

Some(x) == <<x>>

\* Python truthiness of an optional integer: None and 0 are false
Truthy(o) == o # None /\ o[1] # 0

Max(a, b) == IF a >= b THEN a ELSE b

NumValue(h) == [t |-> "num", h |-> h]

StrValue(s) == [t |-> "str", s |-> s]

\* the value a property holds before test_01 touches it
InitialValue(key) == [t |-> "initial", of |-> key]

RECURSIVE Flatten(_)
\* Python: the concatenation of a sequence of lists
Flatten(seqs) == IF seqs = <<>> THEN <<>> ELSE Head(seqs) \o Flatten(Tail(seqs))

\* Python: s * n for a one character string s
Repeat(c, n) == [i \in 1..n |-> c]

(***************************************************************************)
(* Raw parameter constraints, as the device declares them.                 *)
(***************************************************************************)
NumberConstraint(minimum, maximum, step) ==
    [kind |-> "Number", minimum |-> minimum, maximum |-> maximum, step |-> step]

StringConstraint(pattern, max_characters) ==
    [kind |-> "String", pattern |-> pattern, max_characters |-> max_characters]

\* an entry of an object's runtimePropertyConstraints: a constraint naming its property
RuntimeEntry(property_id, c) ==
    [f \in DOMAIN c \cup {"propertyId"} |-> IF f = "propertyId" THEN property_id ELSE c[f]]

(***************************************************************************)
(* Regular expressions.  The patterns of the model are of the anchored     *)
(* shape ^[cls]{lo,hi}$ ; hi = None is an unbounded repetition ("+").      *)
(***************************************************************************)
Pattern(cls, lo, hi) == [cls |-> cls, lo |-> lo, hi |-> hi]

\* re.search(pattern, s) is not None
ReSearch(pattern, s) ==
    /\ Len(s) >= pattern.lo
    /\ pattern.hi # None => Len(s) <= pattern.hi[1]
    /\ \A i \in 1..Len(s) : s[i] \in pattern.cls

\* Xeger(limit).xeger(pattern): the strings it may generate; limit caps an unbounded
\* repetition only.  The random characters are taken equal within one string.
Xeger(limit, pattern) ==
    { Repeat(c, n) : c \in pattern.cls,
                     n \in pattern.lo..(IF pattern.hi = None THEN limit ELSE pattern.hi[1]) }

\* limit of the legal string when max_characters is not declared
DefaultLimit == 10

negative_examples ==
    << <<"!", "$", "%", "^", "&", "*", "(", ")", "+", "_", ":", ";", "/">>,
       Repeat("*", 9), Repeat("0", 9), Repeat("A", 8) >>

(***************************************************************************)
(* The Node under test.  A device holds a root block (oid 1) with the      *)
(* class manager, some worker objects and possibly one child block holding *)
(* the remaining workers.  Every worker class declares one property of its *)
(* own after an inherited, unconstrained, read only one.                   *)
(***************************************************************************)
ROOT_BLOCK_OID == 1

ManagerOid == 2

ChildBlockOid == 3

WorkerOid(i) == 10 + i

NCBLOCK == <<1, 1>>

NCCLASSMANAGER == <<1, 3, 2>>

WorkerClassId(i) == <<1, 2, 0, i>>

InheritedPropertyId == [level |-> 1, index |-> 1]

WorkerPropertyId == [level |-> 3, index |-> 1]

OtherPropertyId == [level |-> 9, index |-> 9]

InheritedProperty ==
    [name |-> "oid", id |-> InheritedPropertyId, isReadOnly |-> TRUE,
     typeName |-> Some("T0"), constraints |-> None]

\* a worker as Init draws it: its own property and its runtime constraints
WorkerSpec(isReadOnly, typeName, cs, runtime) ==
    [isReadOnly |-> isReadOnly, typeName |-> typeName, constraints |-> cs,
     runtime |-> runtime]

WorkerProperty(w) ==
    [name |-> "p", id |-> WorkerPropertyId, isReadOnly |-> w.isReadOnly,
     typeName |-> w.typeName, constraints |-> w.constraints]

MemberDescriptor(oid, classId, role) == [oid |-> oid, classId |-> classId, role |-> role]

WorkerDescriptor(i) == MemberDescriptor(WorkerOid(i), WorkerClassId(i), "worker")

NcObjectNode(kind, classId, oid, role, children) ==
    [kind |-> kind, class_id |-> classId, oid |-> oid, role |-> role,
     child_objects |-> children]

\* the constraints of datatype T1
DatatypeConstraint == NumberConstraint(Some(0), None, None)

\* the device with workers specs[1..k] in the root block and the others in a child block
MkDevice(specs, k) ==
    LET n == Len(specs)
        hasChild == k < n
        rootWorkers == [i \in 1..k |-> WorkerDescriptor(i)]
        childWorkers == [j \in 1..(n - k) |-> WorkerDescriptor(k + j)]
        childDescriptor == MemberDescriptor(ChildBlockOid, NCBLOCK, "child")
        node(d) == NcObjectNode("object", d.classId, d.oid, d.role, <<>>)
        childNode == NcObjectNode("block", NCBLOCK, ChildBlockOid, "child",
                                  [j \in 1..(n - k) |-> node(childWorkers[j])])
        managerNode == NcObjectNode("manager", NCCLASSMANAGER, ManagerOid,
                                    "ClassManager", <<>>)
    IN  [members |->
            [b \in {ROOT_BLOCK_OID} \cup (IF hasChild THEN {ChildBlockOid} ELSE {}) |->
                IF b = ROOT_BLOCK_OID
                THEN <<MemberDescriptor(ManagerOid, NCCLASSMANAGER, "ClassManager")>>
                     \o rootWorkers
                     \o (IF hasChild THEN <<childDescriptor>> ELSE <<>>)
                ELSE childWorkers],
         classes |->
            [c \in {NCBLOCK, NCCLASSMANAGER} \cup {WorkerClassId(i) : i \in 1..n} |->
                IF c \in {NCBLOCK, NCCLASSMANAGER}
                THEN [name |-> IF c = NCBLOCK THEN "NcBlock" ELSE "NcClassManager",
                      properties |-> <<InheritedProperty>>]
                ELSE [name |-> "Worker",
                      properties |-> <<InheritedProperty, WorkerProperty(specs[c[4]])>>]],
         datatypes |->
            [t \in {"T0", "T1"} |->
                [name |-> t,
                 constraints |-> IF t = "T1" THEN Some(DatatypeConstraint) ELSE None]],
         runtime |->
            [o \in {ManagerOid, ChildBlockOid} \cup {WorkerOid(i) : i \in 1..n} |->
                IF o \in {ManagerOid, ChildBlockOid} THEN None
                ELSE specs[o - 10].runtime],
         model |->
            NcObjectNode("block", NCBLOCK, ROOT_BLOCK_OID, "root",
                         <<managerNode>> \o [i \in 1..k |-> node(rootWorkers[i])]
                         \o (IF hasChild THEN <<childNode>> ELSE <<>>))]

(***************************************************************************)
(* _findConstrainedProperties                                              *)
(***************************************************************************)
\* dict.get(key): None when the dictionary has no such key
DictGet(d, key) == IF key \in DOMAIN d THEN d[key] ELSE None

\* Level 0: the constraints of the property's datatype
DatatypeConstraintsOf(dev, class_property) ==
    IF class_property.typeName # None
    THEN dev.datatypes[class_property.typeName[1]].constraints
    ELSE None

\* a faulty variant of PropertyConstraintsOf: the constraints of a read only property too
PropertyConstraintsOfAny(class_property) == class_property.constraints

\* Level 1: the property's own constraints, unless it is read only
PropertyConstraintsOf(class_property) ==
    IF ~class_property.isReadOnly THEN class_property.constraints ELSE None

\* Level 3: the last runtime constraint whose propertyId is the property's id
RuntimeConstraintOf(object_runtime_constraints, class_property) ==
    IF object_runtime_constraints = None \/ object_runtime_constraints = Some(<<>>)
    THEN None
    ELSE LET list == object_runtime_constraints[1]
             hits == { i \in 1..Len(list) :
                         /\ list[i].propertyId.level = class_property.id.level
                         /\ list[i].propertyId.index = class_property.id.index }
         IN  IF hits = {} THEN None
             ELSE Some(list[CHOOSE i \in hits : \A j \in hits : j <= i])

\* whether the property is appended to results
IsConstrained(datatype_constraints, property_constraints, runtime_constraint) ==
    datatype_constraints # None \/ property_constraints # None \/ runtime_constraint # None

\* the records of one member descriptor of a block, in the order of its class's properties
MemberRecords(dev, member, context) ==
    LET class_descriptor == dev.classes[member.classId]
        object_runtime_constraints == dev.runtime[member.oid]
        properties == class_descriptor.properties
        rec(class_property) ==
            LET datatype_constraints == DatatypeConstraintsOf(dev, class_property)
                property_constraints == PropertyConstraintsOf(class_property)
                runtime_constraint ==
                    RuntimeConstraintOf(object_runtime_constraints, class_property)
            IN  IF IsConstrained(datatype_constraints, property_constraints,
                                 runtime_constraint)
                THEN << [oid |-> member.oid,
                         name |-> context \o <<class_descriptor.name, class_property.name>>,
                         property_id |-> class_property.id,
                         property_constraints |-> property_constraints,
                         datatype_constraints |-> datatype_constraints,
                         runtime_constraint |-> runtime_constraint] >>
                ELSE <<>>
    IN  Flatten([i \in 1..Len(properties) |-> rec(properties[i])])

RECURSIVE FindConstrainedProperties(_, _, _)
\* the records of block's members, then those of its child blocks
FindConstrainedProperties(dev, block, context) ==
    LET ctx == context \o <<block.role>>
        block_member_descriptors == dev.members[block.oid]
        direct == Flatten([i \in 1..Len(block_member_descriptors) |->
                             MemberRecords(dev, block_member_descriptors[i], ctx)])
        nested == Flatten([i \in 1..Len(block.child_objects) |->
                             IF block.child_objects[i].kind = "block"
                             THEN FindConstrainedProperties(dev, block.child_objects[i], ctx)
                             ELSE <<>>])
    IN  direct \o nested

(***************************************************************************)
(* test_01: constraint selection and the probe's control flow              *)
(***************************************************************************)
\* stand-in for sys.maxsize (2^63 - 1), scaled to the model checker's integers: a
\* maximum far above every declared bound
SysMaxsize == 536870911

\* lines 459-461: the constraint probed for a record
SelectConstraints(constrained_property) ==
    IF DictGet(constrained_property, "runtime_constraints") # None
    THEN DictGet(constrained_property, "runtime_constraints")
    ELSE IF DictGet(constrained_property, "property_constraints") # None
         THEN DictGet(constrained_property, "property_constraints")
         ELSE DictGet(constrained_property, "datatype_constraints")

\* lines 463-464: the label reported for it
SelectConstraintType(constrained_property) ==
    IF DictGet(constrained_property, "runtime_constraints") # None THEN "runtime"
    ELSE IF DictGet(constrained_property, "property_constraints") # None THEN "property"
         ELSE "datatype"

\* is12_utils.upcast_parameter_constraint of a raw constraint
UpcastParameterConstraint(c) ==
    IF c.kind = "Number"
    THEN [constraint_type |-> "NcParameterConstraintsNumber",
          minimum |-> c.minimum, maximum |-> c.maximum, step |-> c.step]
    ELSE [constraint_type |-> "NcParameterConstraintsString",
          pattern |-> c.pattern, max_characters |-> c.max_characters]

\* a parameter constraint of neither type: test_01 probes nothing for it
UntypedConstraint == [constraint_type |-> "NcParameterConstraints"]

EffectiveMinimum(pcn) == IF Truthy(pcn.minimum) THEN pcn.minimum[1] ELSE 0

EffectiveMaximum(pcn) == IF Truthy(pcn.maximum) THEN pcn.maximum[1] ELSE SysMaxsize

EffectiveStep(pcn) == IF Truthy(pcn.step) THEN pcn.step[1] ELSE 1

\* floor((((maximum - minimum) / 2) + minimum) / step) * step, in exact arithmetic:
\* ((maximum - minimum) / 2 + minimum) / step = (maximum - minimum + 2 minimum) / (2 step)
LegalNumber(minimum, maximum, step) ==
    (((maximum - minimum) + 2 * minimum) \div (2 * step)) * step

\* the values _check_parameter_constraints_number writes, in half units
MinimumProbe(minimum, step) == NumValue(2 * (minimum - step))

MaximumProbe(maximum, step) == NumValue(2 * (maximum + step))

StepProbe(legal, step) == NumValue(2 * legal + step)

Stage(name, k) == [stage |-> name, neg |-> k]

\* the writes test_01 makes for one record, in order, as the conditions of lines
\* 416-422 and 471-508 select them; "string_max" still tests the generated length
Plan(pcn) ==
    IF pcn.constraint_type = "NcParameterConstraintsNumber"
    THEN <<Stage("number_legal", 0)>>
         \o (IF pcn.minimum # None THEN <<Stage("number_minimum", 0)>> ELSE <<>>)
         \o (IF pcn.maximum # None THEN <<Stage("number_maximum", 0)>> ELSE <<>>)
         \o (IF pcn.step # None THEN <<Stage("number_step", 0)>> ELSE <<>>)
         \o <<Stage("reset", 0)>>
    ELSE IF pcn.constraint_type = "NcParameterConstraintsString"
    THEN (IF pcn.pattern # None
          THEN <<Stage("string_legal", 0)>>
               \o SelectSeq([k \in 1..Len(negative_examples) |-> Stage("string_pattern", k)],
                            LAMBDA st : ~ReSearch(pcn.pattern[1], negative_examples[st.neg]))
          ELSE <<>>)
         \o (IF Truthy(pcn.max_characters) THEN <<Stage("string_max", 0)>> ELSE <<>>)
         \o <<Stage("reset", 0)>>
    ELSE <<Stage("reset", 0)>>

\* the stage that follows stage st in the plan
StageAfter(pcn, st) ==
    LET plan == Plan(pcn)
        i == CHOOSE j \in 1..Len(plan) : plan[j] = st
    IN  plan[i + 1]

\* the value written under the 'Pattern' rejection check (line 493)
PatternProbe(generated, negative_example) == StrValue(generated)

\* a faulty variant of AppendError: the message is overwritten instead of extended
AppendErrorOverwriting(msg, constraint, ctype, name) ==
    <<[constraint |-> constraint, constraint_type |-> ctype, name |-> name]>>

\* lines 397-398: the failure message after an accepted write
AppendError(msg, constraint, ctype, name) ==
    Append(msg, [constraint |-> constraint, constraint_type |-> ctype, name |-> name])

PropertyKey(oid, property_id) == [oid |-> oid, property_id |-> property_id]

\* every property of every member of the device
PropertiesOf(dev) ==
    UNION { UNION { { PropertyKey(dev.members[b][i].oid,
                                  dev.classes[dev.members[b][i].classId].properties[j].id) :
                        j \in 1..Len(dev.classes[dev.members[b][i].classId].properties) } :
                    i \in 1..Len(dev.members[b]) } :
            b \in DOMAIN dev.members }

RECURSIVE SelectByIndex(_, _, _)
\* [seq[i] for i in i..Len(seq) if i in ids], in the order of seq
SelectByIndex(seq, ids, i) ==
    IF i > Len(seq) THEN <<>>
    ELSE (IF i \in ids THEN <<seq[i]>> ELSE <<>>) \o SelectByIndex(seq, ids, i + 1)

Returned(outcome, msg) == [outcome |-> outcome, msg |-> msg]

NoResult == Returned("NONE", <<>>)

\* the result test_01 returns after the loop (lines 510-513)
FinalResult(error, msg) == IF error THEN Returned("FAIL", msg) ELSE Returned("PASS", <<>>)

(***************************************************************************)
(* test_01 as a sequence of requests to the device.  Every action is the   *)
(* code of test_01 from one request to the device up to the next one; the  *)
(* device answers each set_property by accepting it (the property takes    *)
(* the value) or by an error (the property keeps its value), and each      *)
(* get_property by the value or by an error.                               *)
(***************************************************************************)
\* the record being probed
constrained_property == selected_properties[idx]

\* an NMOSTestException raised by is12_utils leaves test_01
Raise(request) ==
    /\ pc' = "done"
    /\ result' = Returned("EXCEPTION", <<request>>)

GoTo(st) ==
    /\ pc' = st.stage
    /\ neg' = st.neg

\* the device's handling of a set_property request
DeviceSet(v, purpose, constraint, accepted) ==
    /\ writes' = Append(writes, [oid |-> constrained_property.oid,
                                 property_id |-> constrained_property.property_id,
                                 value |-> v, purpose |-> purpose,
                                 constraint |-> constraint, accepted |-> accepted])
    /\ value' = IF accepted
                THEN [value EXCEPT ![PropertyKey(constrained_property.oid,
                                                 constrained_property.property_id)] = v]
                ELSE value

\* a set_property that is expected to work: its error is not caught
SetExpectingOk(v, purpose, accepted) ==
    /\ DeviceSet(v, purpose, "", accepted)
    /\ UNCHANGED <<constraint_error, constraint_error_msg>>

\* _check_constrained_parameter
CheckConstrainedParameter(constraint, v, accepted) ==
    /\ DeviceSet(v, "check", constraint, accepted)
    /\ constraint_error' = (accepted \/ constraint_error)
    /\ constraint_error_msg' =
          IF accepted
          THEN AppendError(constraint_error_msg, constraint, constraint_type,
                           constrained_property.name)
          ELSE constraint_error_msg

RECURSIVE TraversalRequests(_, _)
\* the requests _findConstrainedProperties makes of the device for a block and the blocks
\* below it (lines 354, 359, 365)
TraversalRequests(dev, block) ==
    { <<"get_member_descriptors", block.oid>> }
    \cup UNION { { <<"get_control_class", dev.members[block.oid][i].oid>>,
                   <<"get_property", dev.members[block.oid][i].oid>> } :
                 i \in 1..Len(dev.members[block.oid]) }
    \cup UNION { IF block.child_objects[i].kind = "block"
                 THEN TraversalRequests(dev, block.child_objects[i])
                 ELSE {} : i \in 1..Len(block.child_objects) }

\* test_01, lines 427-456; the device fails the requests in failed, and the
\* NMOSTestException of a failed request leaves _findConstrainedProperties and test_01
Test01Start ==
    /\ pc = "start"
    /\ \E failed \in { f \in SUBSET TraversalRequests(device, device.model) :
                         Cardinality(f) <= MaxFails } :
          IF failed # {}
          THEN /\ pc' = "done"
               /\ result' = Returned("EXCEPTION", <<"_findConstrainedProperties", failed>>)
               /\ UNCHANGED <<constrained_properties, selected_properties, idx,
                              constraint_error, constraint_error_msg>>
          ELSE
       LET found == FindConstrainedProperties(device, device.model, <<>>)
       IN  /\ constrained_properties' = found
           /\ IF Len(found) = 0
              THEN /\ selected_properties' = <<>>
                   /\ pc' = "done"
                   /\ result' = Returned("UNCLEAR", <<"No properties with ParameterConstraints">>)
                   /\ UNCHANGED <<idx, constraint_error, constraint_error_msg>>
              ELSE \E selected_ids \in SUBSET (1..Len(found)) :
                      LET selected == SelectByIndex(found, selected_ids, 1)
                      IN  /\ selected_properties' = selected
                          /\ IF Len(selected) = 0
                             THEN /\ pc' = "done"
                                  /\ result' = Returned("UNCLEAR",
                                                        <<"No properties selected">>)
                                  /\ UNCHANGED <<idx, constraint_error,
                                                 constraint_error_msg>>
                             ELSE /\ constraint_error' = FALSE
                                  /\ constraint_error_msg' = <<>>
                                  /\ idx' = 1
                                  /\ pc' = "select"
                                  /\ UNCHANGED result
    /\ UNCHANGED <<device, value, writes, constraints, constraint_type,
                   parameter_constraint, original_value, new_value, neg>>
    /\ UNCHANGED <<graphVars, validatorVars, definitionVars, managerVars>>

\* test_01, lines 459-469: choose the constraint, upcast it, cache the original value
BeginProbe ==
    /\ pc = "select"
    /\ constraints' = SelectConstraints(constrained_property)
    /\ constraint_type' = SelectConstraintType(constrained_property)
    /\ \/ \E pcn \in IF constraints' # None
                     THEN {UpcastParameterConstraint(constraints'[1])}
                     ELSE {UntypedConstraint} :
             /\ parameter_constraint' = pcn
             /\ \/ /\ original_value' =
                         value[PropertyKey(constrained_property.oid,
                                           constrained_property.property_id)]
                   /\ GoTo(Plan(pcn)[1])
                   /\ UNCHANGED result
                \/ /\ Raise("get_property")
                   /\ UNCHANGED <<original_value, neg>>
       \/ /\ constraints' = None
          /\ Raise("upcast_parameter_constraint")
          /\ UNCHANGED <<parameter_constraint, original_value, neg>>
    /\ UNCHANGED <<device, value, writes, constrained_properties, selected_properties,
                   idx, new_value, constraint_error, constraint_error_msg>>
    /\ UNCHANGED <<graphVars, validatorVars, definitionVars, managerVars>>

\* _check_parameter_constraints_number, lines 406-413
LegalNumberWrite ==
    /\ pc = "number_legal"
    /\ LET minimum == EffectiveMinimum(parameter_constraint)
           maximum == EffectiveMaximum(parameter_constraint)
           step == EffectiveStep(parameter_constraint)
       IN  /\ new_value' = LegalNumber(minimum, maximum, step)
           /\ \E accepted \in BOOLEAN :
                 /\ SetExpectingOk(NumValue(2 * new_value'), "legal", accepted)
                 /\ IF accepted
                    THEN /\ GoTo(StageAfter(parameter_constraint, Stage(pc, neg)))
                         /\ UNCHANGED result
                    ELSE /\ Raise("set_property")
                         /\ UNCHANGED neg
    /\ UNCHANGED <<device, constrained_properties, selected_properties, idx, constraints,
                   constraint_type, parameter_constraint, original_value>>
    /\ UNCHANGED <<graphVars, validatorVars, definitionVars, managerVars>>

\* a rejection check of _check_parameter_constraints_number
NumberCheck(stage, constraint, v) ==
    /\ pc = stage
    /\ \E accepted \in BOOLEAN : CheckConstrainedParameter(constraint, v, accepted)
    /\ GoTo(StageAfter(parameter_constraint, Stage(pc, neg)))
    /\ UNCHANGED <<device, constrained_properties, selected_properties, idx, constraints,
                   constraint_type, parameter_constraint, original_value, new_value,
                   result>>
    /\ UNCHANGED <<graphVars, validatorVars, definitionVars, managerVars>>

\* lines 416-417
CheckMinimum ==
    NumberCheck("number_minimum", "Minimum",
                MinimumProbe(EffectiveMinimum(parameter_constraint),
                             EffectiveStep(parameter_constraint)))

\* lines 419-420
CheckMaximum ==
    NumberCheck("number_maximum", "Maximum",
                MaximumProbe(EffectiveMaximum(parameter_constraint),
                             EffectiveStep(parameter_constraint)))

\* lines 422-423
CheckStep ==
    NumberCheck("number_step", "Step",
                StepProbe(new_value, EffectiveStep(parameter_constraint)))

\* the limit of the legal string's generator (line 478)
LegalLimit(pcn) == IF Truthy(pcn.max_characters) THEN pcn.max_characters[1] ELSE DefaultLimit

\* test_01, lines 476-482
LegalStringWrite ==
    /\ pc = "string_legal"
    /\ \E generated \in Xeger(LegalLimit(parameter_constraint),
                              parameter_constraint.pattern[1]) :
          /\ new_value' = generated
          /\ \E accepted \in BOOLEAN :
                /\ SetExpectingOk(StrValue(generated), "legal", accepted)
                /\ IF accepted
                   THEN /\ GoTo(StageAfter(parameter_constraint, Stage(pc, neg)))
                        /\ UNCHANGED result
                   ELSE /\ Raise("set_property")
                        /\ UNCHANGED neg
    /\ UNCHANGED <<device, constrained_properties, selected_properties, idx, constraints,
                   constraint_type, parameter_constraint, original_value>>
    /\ UNCHANGED <<graphVars, validatorVars, definitionVars, managerVars>>

\* test_01, lines 490-493, for a negative example that does not match the pattern
CheckPattern ==
    /\ pc = "string_pattern"
    /\ \E accepted \in BOOLEAN :
          CheckConstrainedParameter("Pattern",
                                    PatternProbe(new_value, negative_examples[neg]),
                                    accepted)
    /\ GoTo(StageAfter(parameter_constraint, Stage(pc, neg)))
    /\ UNCHANGED <<device, constrained_properties, selected_properties, idx, constraints,
                   constraint_type, parameter_constraint, original_value, new_value,
                   result>>
    /\ UNCHANGED <<graphVars, validatorVars, definitionVars, managerVars>>

\* the oversized strings of lines 497-501
Oversized(pcn) ==
    IF pcn.pattern # None
    THEN Xeger(pcn.max_characters[1] * 2, pcn.pattern[1])
    ELSE {Repeat("*", pcn.max_characters[1] * 2)}

\* test_01, lines 496-505
CheckMaxCharacters ==
    /\ pc = "string_max"
    /\ \E generated \in Oversized(parameter_constraint) :
          /\ new_value' = generated
          /\ IF Len(generated) > parameter_constraint.max_characters[1]
             THEN \E accepted \in BOOLEAN :
                     CheckConstrainedParameter("Max characters", StrValue(generated),
                                               accepted)
             ELSE UNCHANGED <<value, writes, constraint_error, constraint_error_msg>>
    /\ GoTo(StageAfter(parameter_constraint, Stage(pc, neg)))
    /\ UNCHANGED <<device, constrained_properties, selected_properties, idx, constraints,
                   constraint_type, parameter_constraint, original_value, result>>
    /\ UNCHANGED <<graphVars, validatorVars, definitionVars, managerVars>>

\* test_01, lines 507-513: reset to the original value, then the next record or the result
ResetValue ==
    /\ pc = "reset"
    /\ \E accepted \in BOOLEAN :
          /\ SetExpectingOk(original_value, "reset", accepted)
          /\ IF ~accepted
             THEN /\ Raise("set_property")
                  /\ UNCHANGED idx
             ELSE IF idx < Len(selected_properties)
                  THEN /\ idx' = idx + 1
                       /\ pc' = "select"
                       /\ UNCHANGED result
                  ELSE /\ pc' = "done"
                       /\ result' = FinalResult(constraint_error, constraint_error_msg)
                       /\ UNCHANGED idx
    /\ UNCHANGED <<device, constrained_properties, selected_properties, constraints,
                   constraint_type, parameter_constraint, original_value, new_value, neg>>
    /\ UNCHANGED <<graphVars, validatorVars, definitionVars, managerVars>>

(***************************************************************************)
(* The devices test_01 is run against.                                     *)
(***************************************************************************)
\* the constraints declared at the property tier and at the runtime tier of a worker
PropertyTierConstraint == NumberConstraint(None, Some(10), None)

RuntimeTierConstraint == NumberConstraint(None, None, Some(2))

\* workers with every combination of read only flag and constraint tiers
TierWorkers ==
    { WorkerSpec(ro, tn, cs, rt) :
        ro \in BOOLEAN,
        tn \in {Some("T0"), Some("T1")},
        cs \in {None, Some(PropertyTierConstraint)},
        rt \in {None, Some(<<RuntimeEntry(WorkerPropertyId, RuntimeTierConstraint)>>)} }

\* the workers of the devices with several workers: a writable one constrained at the
\* property tier, one also at the runtime tier, a read only one constrained by its
\* datatype, and a writable one with a declared minimum and maximum
SiblingWorkers ==
    { WorkerSpec(FALSE, Some("T0"), Some(PropertyTierConstraint), None),
      WorkerSpec(FALSE, Some("T0"), Some(PropertyTierConstraint),
                 Some(<<RuntimeEntry(WorkerPropertyId, RuntimeTierConstraint)>>)),
      WorkerSpec(TRUE, Some("T1"), None, None),
      WorkerSpec(FALSE, Some("T0"), Some(NumberConstraint(Some(1), Some(10), None)), None) }

\* no worker, one worker of every kind, or several sibling workers; the first k workers
\* are members of the root block and the others of its child block
TierDevices ==
    UNION { { MkDevice(specs, k) : k \in 0..Len(specs) } :
            specs \in [1..0 -> TierWorkers] \cup [1..1 -> TierWorkers]
                      \cup UNION { [1..n -> SiblingWorkers] : n \in 2..MaxMembers } }

\* a writable worker with a property level constraint only (its runtime constraints
\* name another property, its type is not declared)
ProbedWorker(c) ==
    WorkerSpec(FALSE, None, Some(c), Some(<<RuntimeEntry(OtherPropertyId, c)>>))

MinimumChoices == {None, Some(0), Some(1), Some(-3)}

MaximumChoices == {None, Some(0), Some(10)}

StepChoices == {None, Some(1), Some(2)}

NumberDevices ==
    { MkDevice(<<ProbedWorker(NumberConstraint(mi, ma, st))>>, 1) :
        mi \in MinimumChoices, ma \in MaximumChoices, st \in StepChoices }

\* ^[AB]{3}$ , ^A+$ (matches 'AAAAAAAA') and ^[0*]+$ (matches '*********', '000000000')
PatternChoices ==
    {None, Some(Pattern({"A", "B"}, 3, Some(3))), Some(Pattern({"A"}, 1, None)),
     Some(Pattern({"0", "*"}, 1, None))}

MaxCharactersChoices == {None, Some(0), Some(3)}

StringDevices ==
    { MkDevice(<<ProbedWorker(StringConstraint(pa, mc))>>, 1) :
        pa \in PatternChoices, mc \in MaxCharactersChoices }

Devices == TierDevices \cup NumberDevices \cup StringDevices

\* the graph and the validator are idle while test_01 runs
GraphIdle ==
    /\ device_model = None
    /\ device_model_metadata = [checked |-> FALSE, error |-> FALSE, error_msg |-> <<>>]
    /\ query_result = NoResult
    /\ queries = 0

ValidatorIdle ==
    /\ reference = None
    /\ descriptor = None
    /\ validation = None

DefinitionsIdle ==
    /\ reference_descriptors = None
    /\ descriptors = None
    /\ datatype_schemas = None
    /\ results = None

ManagerIdle == manager = NoResult

ProbeIdle ==
    /\ value = <<>>
    /\ writes = <<>>
    /\ constrained_properties = <<>>
    /\ selected_properties = <<>>
    /\ idx = 0
    /\ constraints = None
    /\ constraint_type = ""
    /\ parameter_constraint = UntypedConstraint
    /\ original_value = None
    /\ new_value = None
    /\ neg = 0
    /\ constraint_error = FALSE
    /\ constraint_error_msg = <<>>
    /\ result = NoResult

\* IS1202Test.__init__ (lines 57-60), before test_01, against any of the devices
Init ==
    /\ device \in Devices
    /\ value = [key \in PropertiesOf(device) |-> InitialValue(key)]
    /\ writes = <<>>
    /\ pc = "start"
    /\ constrained_properties = <<>>
    /\ selected_properties = <<>>
    /\ idx = 0
    /\ constraints = None
    /\ constraint_type = ""
    /\ parameter_constraint = UntypedConstraint
    /\ original_value = None
    /\ new_value = None
    /\ neg = 0
    /\ constraint_error = FALSE
    /\ constraint_error_msg = <<>>
    /\ result = NoResult
    /\ GraphIdle
    /\ ValidatorIdle
    /\ DefinitionsIdle
    /\ ManagerIdle

Next ==
    \/ Test01Start
    \/ BeginProbe
    \/ LegalNumberWrite
    \/ CheckMinimum
    \/ CheckMaximum
    \/ CheckStep
    \/ LegalStringWrite
    \/ CheckPattern
    \/ CheckMaxCharacters
    \/ ResetValue

Spec == Init /\ [][Next]_vars

(***************************************************************************)
(* Properties of test_01 (specification Spec).                             *)
(***************************************************************************)
KeyOf(r) == PropertyKey(r.oid, r.property_id)

\* the set_property requests the device received for a property, in order
WritesTo(key) == SelectSeq(writes, LAMBDA w : PropertyKey(w.oid, w.property_id) = key)

Last(seq) == seq[Len(seq)]

\* the selected records whose original value test_01 has read
Started ==
    { i \in 1..idx :
        \/ i < idx
        \/ pc \notin {"select", "done"}
        \/ pc = "done" /\ result.msg \notin {<<"get_property">>,
                                             <<"upcast_parameter_constraint">>} }

\* the stages at which a record is being probed
ProbeStages ==
    {"number_legal", "number_minimum", "number_maximum", "number_step", "string_legal",
     "string_pattern", "string_max", "reset"}

\* C1: when test_01 has ended, on whatever path, the last set_property issued to every
\* property whose probe was started is the write of its pre-probe value.
C1_RestoredOnEveryPath ==
    pc = "done" =>
        \A i \in Started :
            LET key == KeyOf(selected_properties[i])
            IN  /\ WritesTo(key) # <<>>
                /\ Last(WritesTo(key)).purpose = "reset"
                /\ Last(WritesTo(key)).value = InitialValue(key)

\* C2: the constraint test_01 probes a record with, and the label it reports, follow the
\* order runtime, else property, else datatype.
C2_RuntimeFirstPrecedence ==
    pc \in ProbeStages =>
        LET r == constrained_property
        IN  IF r.runtime_constraint # None
            THEN constraint_type = "runtime" /\ constraints = r.runtime_constraint
            ELSE IF r.property_constraints # None
                 THEN constraint_type = "property" /\ constraints = r.property_constraints
                 ELSE constraint_type = "datatype" /\ constraints = r.datatype_constraints

\* C3: a write under the 'Pattern' rejection check carries a negative example literal
\* that does not match the pattern, never a value that matches it.
C3_PatternCheckWritesNegativeExample ==
    (writes # <<>> /\ Last(writes).constraint = "Pattern") =>
        /\ \E k \in 1..Len(negative_examples) :
              Last(writes).value = StrValue(negative_examples[k])
        /\ ~ReSearch(parameter_constraint.pattern[1], Last(writes).value.s)

\* C4: the device's rejection of a legal value is recorded as a violation and does not
\* end test_01.
C4_LegalRejectionAccumulated ==
    (writes # <<>> /\ Last(writes).purpose = "legal" /\ ~Last(writes).accepted) =>
        /\ pc # "done"
        /\ constraint_error
        /\ constraint_error_msg # <<>>

\* the rejection checks whose write the device accepted, in order
AcceptedChecks == SelectSeq(writes, LAMBDA w : w.purpose = "check" /\ w.accepted)

\* the display name of the selected record a write went to
NameOfWrite(w) ==
    LET i == CHOOSE j \in 1..Len(selected_properties) :
                KeyOf(selected_properties[j]) = PropertyKey(w.oid, w.property_id)
    IN  selected_properties[i].name

\* C5: the accumulated message holds exactly one entry per accepted rejection check, in
\* order, over all probed properties (a rejected check adds none, nothing is cleared),
\* and a completed test_01 returns PASS iff there is none, else FAIL with the message.
C5_FailIffSomeCheckAccepted ==
    pc # "start" =>
        /\ Len(constraint_error_msg) = Len(AcceptedChecks)
        /\ \A i \in 1..Len(AcceptedChecks) :
              /\ constraint_error_msg[i].constraint = AcceptedChecks[i].constraint
              /\ constraint_error_msg[i].name = NameOfWrite(AcceptedChecks[i])
        /\ constraint_error = (AcceptedChecks # <<>>)
        /\ (pc = "done" /\ result.outcome \in {"PASS", "FAIL"}) =>
              /\ result.outcome = "PASS" <=> AcceptedChecks = <<>>
              /\ result.outcome = "FAIL" => result.msg = constraint_error_msg

\* C5 witness: test_01 ran to completion and failed with violations of two properties
C5_Witness ==
    /\ pc = "done"
    /\ result.outcome = "FAIL"
    /\ Len(result.msg) >= 2
    /\ result.msg[1].name # result.msg[2].name
    /\ \E i \in 1..Len(writes) : writes[i].purpose = "check" /\ ~writes[i].accepted

\* whether some writable property of the device carries a constraint at some tier
HasWritableConstrainedProperty(dev) ==
    \E b \in DOMAIN dev.members : \E i \in 1..Len(dev.members[b]) :
        LET member == dev.members[b][i]
            properties == dev.classes[member.classId].properties
        IN  \E j \in 1..Len(properties) :
                /\ ~properties[j].isReadOnly
                /\ \/ properties[j].constraints # None
                   \/ /\ properties[j].typeName # None
                      /\ dev.datatypes[properties[j].typeName[1]].constraints # None
                   \/ /\ dev.runtime[member.oid] # None
                      /\ \E e \in 1..Len(dev.runtime[member.oid][1]) :
                            dev.runtime[member.oid][1][e].propertyId = properties[j].id

\* C7: against a device without any writable constrained property test_01 issues no
\* set_property and returns UNCLEAR.
C7_NoWritableConstraintIsUnclear ==
    ~HasWritableConstrainedProperty(device) =>
        /\ writes = <<>>
        /\ (pc = "done" /\ result.outcome # "EXCEPTION") => result.outcome = "UNCLEAR"

\* the illegal values the claim expects for a declared number constraint c
ExpectedNumberChecks(c, legal) ==
    LET step == IF c.step # None THEN c.step[1] ELSE 1
    IN  (IF c.minimum # None THEN <<NumValue(2 * (c.minimum[1] - step))>> ELSE <<>>)
        \o (IF c.maximum # None THEN <<NumValue(2 * (c.maximum[1] + step))>> ELSE <<>>)
        \o (IF c.step # None THEN <<NumValue(2 * legal + step)>> ELSE <<>>)

\* C8: after the legal write the illegal probes of a number constraint are
\* (minimum - step) iff minimum is declared, (maximum + step) iff maximum is declared and
\* (legal + step / 2) iff step is declared, step being the declared step or 1.
C8_NumberProbesAsDeclared ==
    (pc = "reset" /\ parameter_constraint.constraint_type = "NcParameterConstraintsNumber") =>
        LET mine == WritesTo(KeyOf(constrained_property))
            checks == SelectSeq(mine, LAMBDA w : w.purpose = "check")
        IN  /\ mine[1].purpose = "legal"
            /\ [i \in 1..Len(checks) |-> checks[i].value]
                  = ExpectedNumberChecks(constraints[1], new_value)

(***************************************************************************)
(* nc_object_factory and query_device_model.  The device is a chain of     *)
(* nested blocks B0 (the root) .. Bd; block Bi holds a class manager if i  *)
(* is in managersIn, a worker if i is in workersIn, and block B(i+1).      *)
(***************************************************************************)
BlockOid(i) == 100 * i + 1

ManagerOidIn(i) == 100 * i + 2

WorkerOidIn(i) == 100 * i + 3

NcWorkerClassId == <<1, 2>>

GraphDevice(d, managersIn, workersIn) ==
    [members |->
        [b \in {BlockOid(i) : i \in 0..d} |->
            LET i == (b - 1) \div 100
            IN  (IF i \in managersIn
                 THEN <<MemberDescriptor(ManagerOidIn(i), NCCLASSMANAGER, "ClassManager")>>
                 ELSE <<>>)
                \o (IF i \in workersIn
                    THEN <<MemberDescriptor(WorkerOidIn(i), NcWorkerClassId, "worker")>>
                    ELSE <<>>)
                \o (IF i < d
                    THEN <<MemberDescriptor(BlockOid(i + 1), NCBLOCK, "block")>>
                    ELSE <<>>)],
     managers |-> {ManagerOidIn(i) : i \in managersIn},
     controlClasses |-> <<[name |-> "NcObject", classId |-> Some(<<1>>)]>>,
     datatypes |-> <<[name |-> "NcOid", classId |-> None]>>]

GraphDevices ==
    UNION { { GraphDevice(d, m, w) : m \in SUBSET (0..d), w \in SUBSET (0..d) } :
            d \in 0..MaxDepth }

\* the property fetches nc_object_factory may make of a device
FetchesOf(dev) ==
    { <<b, "members">> : b \in DOMAIN dev.members }
    \cup { <<m, p>> : m \in dev.managers, p \in {"controlClasses", "datatypes"} }

\* what the device holds for a property
DeviceProperty(dev, oid, property_id) ==
    IF property_id = "members" THEN dev.members[oid]
    ELSE IF property_id = "controlClasses" THEN dev.controlClasses
    ELSE dev.datatypes

\* get_property (lines 274-284): the value, or None with the error recorded
GetProperty(dev, fails, oid, property_id, context) ==
    IF <<oid, property_id>> \in fails
    THEN [value |-> None,
          error_msg |-> <<[context |-> context, property_id |-> property_id]>>]
    ELSE [value |-> Some(DeviceProperty(dev, oid, property_id)), error_msg |-> <<>>]

\* Python truthiness of an optional list: None and [] are false
NonEmpty(o) == o # None /\ o[1] # <<>>

\* key_lambda of get_class_manager_descriptors
KeyLambda(r) == IF r.classId # None THEN r.classId ELSE Some(r.name)

\* get_class_manager_descriptors (lines 235-246)
GetClassManagerDescriptors(dev, fails, oid, property_id, role) ==
    LET response == GetProperty(dev, fails, oid, property_id, role)
    IN  IF ~NonEmpty(response.value)
        THEN [value |-> None, error_msg |-> response.error_msg]
        ELSE [value |-> Some([k \in {KeyLambda(response.value[1][i]) :
                                       i \in 1..Len(response.value[1])} |->
                                 LET i == CHOOSE j \in 1..Len(response.value[1]) :
                                             /\ KeyLambda(response.value[1][j]) = k
                                             /\ \A l \in j + 1..Len(response.value[1]) :
                                                   KeyLambda(response.value[1][l]) # k
                                 IN  response.value[1][i]]),
              error_msg |-> response.error_msg]

IsBlockClassId(class_id) == Len(class_id) > 1 /\ class_id[1] = 1 /\ class_id[2] = 1

IsClassManagerClassId(class_id) ==
    Len(class_id) > 2 /\ class_id[1] = 1 /\ class_id[2] = 3 /\ class_id[3] = 2

\* whether nc_object_factory attaches the object built for a member to its block
AttachChild(child_object) == child_object # None

RECURSIVE NcObjectFactory(_, _, _, _, _)
\* nc_object_factory (lines 286-318): the object built, or None, with the errors recorded
NcObjectFactory(dev, fails, class_id, oid, role) ==
    IF IsBlockClassId(class_id)
    THEN LET member_descriptors == GetProperty(dev, fails, oid, "members", role)
         IN  IF ~NonEmpty(member_descriptors.value)
             THEN [object |-> None, error_msg |-> member_descriptors.error_msg]
             ELSE LET m == member_descriptors.value[1]
                      built == [i \in 1..Len(m) |->
                                  NcObjectFactory(dev, fails, m[i].classId, m[i].oid,
                                                  m[i].role)]
                      children == Flatten([i \in 1..Len(m) |->
                                             IF AttachChild(built[i].object)
                                             THEN built[i].object ELSE <<>>])
                  IN  [object |-> Some(NcObjectNode("block", class_id, oid, role, children)),
                       error_msg |-> member_descriptors.error_msg
                                     \o Flatten([i \in 1..Len(m) |-> built[i].error_msg])]
    ELSE IF IsClassManagerClassId(class_id)
    THEN LET class_descriptors ==
                 GetClassManagerDescriptors(dev, fails, oid, "controlClasses", role)
             datatype_descriptors ==
                 GetClassManagerDescriptors(dev, fails, oid, "datatypes", role)
             errors == class_descriptors.error_msg \o datatype_descriptors.error_msg
         IN  IF class_descriptors.value = None \/ datatype_descriptors.value = None
             THEN [object |-> None, error_msg |-> errors]
             ELSE [object |-> Some(NcObjectNode("manager", class_id, oid, role, <<>>)),
                   error_msg |-> errors]
    ELSE [object |-> Some(NcObjectNode("object", class_id, oid, role, <<>>)),
          error_msg |-> <<>>]

\* query_device_model (lines 320-330), the device failing the fetches in fails
QueryDeviceModel ==
    /\ pc = "graph"
    /\ queries < MaxQueries
    /\ queries' = queries + 1
    /\ \E fails \in { f \in SUBSET FetchesOf(device) : Cardinality(f) <= MaxFails } :
          IF device_model = None
          THEN LET made == NcObjectFactory(device, fails, NCBLOCK, ROOT_BLOCK_OID, "root")
               IN  /\ device_model' = made.object
                   /\ device_model_metadata' =
                         [device_model_metadata EXCEPT
                             !.error = @ \/ made.error_msg # <<>>,
                             !.error_msg = @ \o made.error_msg]
                   /\ query_result' =
                         IF made.object = None
                         THEN Returned("FAIL", device_model_metadata'.error_msg)
                         ELSE Returned("OK", made.object)
          ELSE /\ query_result' = Returned("OK", device_model)
               /\ UNCHANGED <<device_model, device_model_metadata>>
    /\ UNCHANGED <<device, value, writes, pc, constrained_properties, selected_properties,
                   idx, constraints, constraint_type, parameter_constraint, original_value,
                   new_value, neg, constraint_error, constraint_error_msg, result>>
    /\ UNCHANGED <<validatorVars, definitionVars, managerVars>>

\* IS1202Test.__init__ (lines 57-60), against any of the chains of blocks
GraphInit ==
    /\ device \in GraphDevices
    /\ pc = "graph"
    /\ ProbeIdle
    /\ GraphIdle
    /\ ValidatorIdle
    /\ DefinitionsIdle
    /\ ManagerIdle

GraphNext == QueryDeviceModel

SpecGraph == GraphInit /\ [][GraphNext]_vars

\* C6: a call of query_device_model that builds and returns a graph recorded no property
\* fetch error while building it (a failed fetch at any depth fails the query).
C6_FetchFailureFailsQuery ==
    [][(device_model = None /\ device_model' # None) =>
          device_model_metadata'.error_msg = device_model_metadata.error_msg]_vars

(***************************************************************************)
(* validate_descriptor.  A JSON value is a scalar, a dictionary (a         *)
(* function of its keys) or a list; scalars and keys are strings.          *)
(***************************************************************************)
Scalar(v) == [t |-> "scalar", v |-> v]

Dict(d) == [t |-> "dict", d |-> d]

List(l) == [t |-> "list", l |-> l]

non_normative_keys == {"description"}

Ok == [ok |-> TRUE, kind |-> "", context |-> <<>>,
       detail |-> [keys |-> {}, expected |-> None, actual |-> None]]

\* NMOSTestException(test.FAIL(context + ...))
Fail(kind, context, keys, expected, actual) ==
    [ok |-> FALSE, kind |-> kind, context |-> context,
     detail |-> [keys |-> keys, expected |-> expected, actual |-> actual]]

\* an exception of another type than NMOSTestException (AttributeError, TypeError, KeyError)
PythonError(context) == Fail("PythonError", context, {}, None, None)

\* line 192: (reference_keys | descriptor_keys) - (reference_keys & descriptor_keys)
KeyDiff(reference_keys, descriptor_keys) ==
    (reference_keys \cup descriptor_keys) \ (reference_keys \cap descriptor_keys)

\* a faulty variant of KeyDiffDescription: 'Missing keys' as soon as one reference key is absent
KeyDiffDescriptionAnyMissing(key_diff, reference_keys) ==
    IF key_diff \cap reference_keys # {} THEN "Missing keys " ELSE "Additional keys "

\* line 194: the error description of a key difference
KeyDiffDescription(key_diff, reference_keys) ==
    IF key_diff \subseteq reference_keys THEN "Missing keys " ELSE "Additional keys "

\* whether {item['name']: item for item in x} can be evaluated
CanReKey(x) ==
    /\ x.t = "list"
    /\ \A i \in 1..Len(x.l) :
          /\ x.l[i].t = "dict"
          /\ "name" \in DOMAIN x.l[i].d
          /\ x.l[i].d["name"].t = "scalar"

\* a faulty variant of ReKey: the items keyed by their position in the list
ReKeyByPosition(x) == Dict([n \in {ToString(i) : i \in 1..Len(x.l)} |->
                              x.l[CHOOSE i \in 1..Len(x.l) : ToString(i) = n]])

\* lines 209-210: {item['name']: item for item in x}; the last item of a name wins
ReKey(x) ==
    Dict([n \in {x.l[i].d["name"].v : i \in 1..Len(x.l)} |->
            x.l[CHOOSE i \in 1..Len(x.l) :
                   /\ x.l[i].d["name"].v = n
                   /\ \A j \in i + 1..Len(x.l) : x.l[j].d["name"].v # n]])

\* line 197: a non normative key is skipped unless its reference value is a dictionary
IsSkipped(key, reference_value) == key \in non_normative_keys /\ reference_value.t # "dict"

\* lines 214-218: the comparison of a scalar reference
ScalarOutcome(ref, obs, context) ==
    IF ref # obs THEN Fail("Expected value", context, {}, Some(ref), Some(obs)) ELSE Ok

RECURSIVE ValidateDescriptor(_, _, _)
\* validate_descriptor (lines 183-219): the outcomes it may end with.  The keys of a
\* dictionary are visited in the order of a Python set, so that the failure of any
\* failing key may be the one raised.
ValidateDescriptor(ref, obs, context) ==
    IF ref.t = "dict"
    THEN IF obs.t # "dict" THEN {PythonError(context)}
         ELSE LET reference_keys == DOMAIN ref.d
                  descriptor_keys == DOMAIN obs.d
                  key_diff == KeyDiff(reference_keys, descriptor_keys)
                  ofKey(key) ==
                      IF IsSkipped(key, ref.d[key]) THEN {Ok}
                      ELSE IF key = "classId" /\ ref.d[key].t = "list"
                      THEN IF ref.d[key] # obs.d[key]
                           THEN {Fail("Unexpected ClassId", context, {}, Some(ref.d[key]),
                                      Some(obs.d[key]))}
                           ELSE {Ok}
                      ELSE ValidateDescriptor(ref.d[key], obs.d[key], Append(context, key))
                  failures == UNION { ofKey(key) \ {Ok} : key \in reference_keys }
              IN  IF key_diff # {}
                  THEN {Fail(KeyDiffDescription(key_diff, reference_keys), context,
                             key_diff, None, None)}
                  ELSE IF failures = {} THEN {Ok} ELSE failures
    ELSE IF ref.t = "list"
    THEN IF ~CanReKey(ref) \/ ~CanReKey(obs) THEN {PythonError(context)}
         ELSE ValidateDescriptor(ReKey(ref), ReKey(obs), context)
    ELSE {ScalarOutcome(ref, obs, context)}

(***************************************************************************)
(* The descriptors validate_descriptor is given: dictionaries with an      *)
(* optional description, an optional classId and an optional list of       *)
(* named items.                                                            *)
(***************************************************************************)
ScalarChoices == {Scalar("1"), Scalar("2")}

ClassIdChoices == {List(<<Scalar("1"), Scalar("2")>>), List(<<Scalar("2"), Scalar("1")>>)}

ItemChoices ==
    { Dict([name |-> Scalar("a"), value |-> Scalar("1")]),
      Dict([name |-> Scalar("a"), value |-> Scalar("2")]),
      Dict([name |-> Scalar("b"), value |-> Scalar("1")]),
      Dict([name |-> Scalar("c"), value |-> Scalar("1")]) }

ItemLists == { List(l) : l \in UNION { [1..n -> ItemChoices] : n \in 0..MaxItems } }

\* the dictionary with the given optional members
Descriptor(description, classId, items) ==
    Dict([k \in (IF description = None THEN {} ELSE {"description"})
                \cup (IF classId = None THEN {} ELSE {"classId"})
                \cup (IF items = None THEN {} ELSE {"items"}) |->
            IF k = "description" THEN description[1]
            ELSE IF k = "classId" THEN classId[1]
            ELSE items[1]])

Optional(S) == {None} \cup { Some(x) : x \in S }

Descriptors ==
    { Descriptor(de, ci, it) : de \in Optional(ScalarChoices), ci \in Optional(ClassIdChoices),
                               it \in Optional(ItemLists) }

\* one call of validate_descriptor(test, reference, descriptor)
Validate ==
    /\ pc = "validate"
    /\ validation' \in { Some(o) : o \in ValidateDescriptor(reference, descriptor, <<>>) }
    /\ pc' = "validated"
    /\ UNCHANGED <<reference, descriptor>>
    /\ UNCHANGED <<device, value, writes, constrained_properties, selected_properties,
                   idx, constraints, constraint_type, parameter_constraint, original_value,
                   new_value, neg, constraint_error, constraint_error_msg, result>>
    /\ UNCHANGED <<graphVars, definitionVars, managerVars>>

ValidatorInit ==
    /\ reference \in Descriptors
    /\ descriptor \in Descriptors
    /\ validation = None
    /\ pc = "validate"
    /\ device = None
    /\ ProbeIdle
    /\ GraphIdle
    /\ DefinitionsIdle
    /\ ManagerIdle

ValidatorNext == Validate

SpecValidator == ValidatorInit /\ [][ValidatorNext]_vars

(***************************************************************************)
(* Properties of validate_descriptor (specification SpecValidator).        *)
(***************************************************************************)
ReferenceKeys == DOMAIN reference.d

ObservedKeys == DOMAIN descriptor.d

\* the reference keys absent from the observed mapping, and the observed keys absent
\* from the reference
MissingKeys == ReferenceKeys \ ObservedKeys

AdditionalKeys == ObservedKeys \ ReferenceKeys

\* the call failed on the comparison of the key sets of its two arguments
IsKeyFailure(v) ==
    ~v.ok /\ v.kind \in {"Missing keys ", "Additional keys "} /\ v.context = <<>>

\* C9, as claimed: the call fails on the keys iff the key sets differ, reports their
\* symmetric difference, says 'Missing keys' exactly when every reported key is a
\* reference key absent from the observed mapping and 'Additional keys' exactly when every
\* reported key is an observed key absent from the reference.
C9_LabelExactlyOneSided ==
    pc = "validated" =>
        LET v == validation[1]
        IN  /\ IsKeyFailure(v) <=> ReferenceKeys # ObservedKeys
            /\ IsKeyFailure(v) =>
                  /\ v.detail.keys = MissingKeys \cup AdditionalKeys
                  /\ v.kind = "Missing keys " <=> v.detail.keys \subseteq MissingKeys
                  /\ v.kind = "Additional keys " <=> v.detail.keys \subseteq AdditionalKeys

\* C9, amended: the call fails on the keys iff the key sets differ, reports their
\* symmetric difference, says 'Missing keys' exactly when every reported key is a
\* reference key absent from the observed mapping and 'Additional keys' otherwise, that
\* is exactly when some reported key is an observed key absent from the reference.
C9_KeyDifferenceReported ==
    pc = "validated" =>
        LET v == validation[1]
        IN  /\ IsKeyFailure(v) <=> ReferenceKeys # ObservedKeys
            /\ IsKeyFailure(v) =>
                  /\ v.detail.keys = MissingKeys \cup AdditionalKeys
                  /\ v.kind = "Missing keys " <=> v.detail.keys \subseteq MissingKeys
                  /\ v.kind = "Additional keys " <=> AdditionalKeys # {}

\* C9 witness: a difference with a missing and an extra key was reported
C9_Witness ==
    /\ pc = "validated"
    /\ IsKeyFailure(validation[1])
    /\ MissingKeys # {}
    /\ AdditionalKeys # {}
    /\ validation[1].kind = "Additional keys "

\* the names of the items of a list are pairwise different
UniqueNames(x) ==
    "items" \in DOMAIN x.d =>
        \A i, j \in 1..Len(x.d["items"].l) :
            x.d["items"].l[i].d["name"] = x.d["items"].l[j].d["name"] => i = j

\* the descriptors obtained from x by permuting its list of named items
PermutationsOf(x) ==
    IF "items" \in DOMAIN x.d
    THEN LET l == x.d["items"].l
         IN  { Dict([x.d EXCEPT !["items"] = List([i \in 1..Len(l) |-> l[f[i]]])]) :
                 f \in Permutations(1..Len(l)) }
    ELSE {x}

RECURSIVE Differs(_, _, _)
\* the two descriptors differ in a classId or in a scalar found at the same place of both
\* (list items being matched by name); the scalar values of non normative keys count
\* only if nonNormative
Differs(ref, obs, nonNormative) ==
    IF ref.t = "dict" /\ obs.t = "dict"
    THEN \E k \in DOMAIN ref.d \cap DOMAIN obs.d :
            IF k = "classId" THEN ref.d[k] # obs.d[k]
            ELSE IF k \in non_normative_keys /\ ref.d[k].t # "dict" /\ ~nonNormative
                 THEN FALSE
                 ELSE Differs(ref.d[k], obs.d[k], nonNormative)
    ELSE IF ref.t = "list" /\ obs.t = "list"
    THEN \E i \in 1..Len(ref.l) : \E j \in 1..Len(obs.l) :
            /\ ref.l[i].d["name"] = obs.l[j].d["name"]
            /\ Differs(ref.l[i], obs.l[j], nonNormative)
    ELSE IF ref.t = "scalar" /\ obs.t = "scalar" THEN ref # obs
    ELSE FALSE

\* the possible outcomes do not depend on the order of the items of either argument, and
\* an observed descriptor equal to the reference, or to a reordering of it, validates Ok
OrderInsensitive ==
    /\ reference = descriptor => validation[1].ok
    /\ (UniqueNames(reference) /\ UniqueNames(descriptor)) =>
          /\ descriptor \in PermutationsOf(reference) => validation[1].ok
          /\ \A r \in PermutationsOf(reference) :
                ValidateDescriptor(r, descriptor, <<>>)
                    = ValidateDescriptor(reference, descriptor, <<>>)
          /\ \A o \in PermutationsOf(descriptor) :
                ValidateDescriptor(reference, o, <<>>)
                    = ValidateDescriptor(reference, descriptor, <<>>)

\* C10, as claimed: validation is insensitive to the order of the named items of a list,
\* an identical descriptor validates Ok, and every scalar or classId difference fails.
C10_EveryScalarDifferenceFails ==
    pc = "validated" =>
        /\ OrderInsensitive
        /\ (UniqueNames(reference) /\ UniqueNames(descriptor)
            /\ Differs(reference, descriptor, TRUE)) => ~validation[1].ok

\* C10, amended: validation is insensitive to the order of the named items of a list
\* (names unique), an identical descriptor validates Ok, and every classId difference
\* and every difference of a scalar other than the value of a non normative
\* 'description' key fails (names unique).
C10_OrderInsensitive ==
    pc = "validated" =>
        /\ OrderInsensitive
        /\ (UniqueNames(reference) /\ UniqueNames(descriptor)
            /\ Differs(reference, descriptor, FALSE)) => ~validation[1].ok

\* C10 witness: a list of two items in another order than the reference's validated Ok
C10_Witness ==
    /\ pc = "validated"
    /\ validation[1].ok
    /\ descriptor # reference
    /\ descriptor \in PermutationsOf(reference)
    /\ UniqueNames(reference)
    /\ Len(reference.d["items"].l) >= 2

(***************************************************************************)
(* validate_model_definitions and _validate_schema.                        *)
(***************************************************************************)
\* a JSON schema, by what jsonschema makes of it: a schema that is not well formed raises
\* SchemaError, a payload outside accepts raises ValidationError
Schema(wellFormed, accepts) == [wellFormed |-> wellFormed, accepts |-> accepts]

\* _validate_schema (lines 221-233); a schema of None stands for a false one (None, {})
ValidateSchema(payload, schema, context) ==
    IF schema = None THEN Fail("Missing schema. ", context, {}, None, None)
    ELSE IF ~schema[1].wellFormed THEN Fail("Schema error: ", context, {}, None, None)
    ELSE IF payload \notin schema[1].accepts
    THEN Fail("Schema validation error: ", context, {}, None, None)
    ELSE Ok

\* the keys of the descriptors, in the order of sorted(): "1" < "2" < ...
DefinitionKeys == [i \in 1..MaxKeys |-> ToString(i)]

\* line 252: sorted(reference_descriptors.keys())
SortedKeys(S) == SelectSeq(DefinitionKeys, LAMBDA k : k \in S)

\* line 257: the truth value of descriptors.get(key)
HasDescriptor(descs, key) ==
    /\ key \in DOMAIN descs
    /\ descs[key].t = "dict" => DOMAIN descs[key].d # {}
    /\ descs[key].t = "list" => descs[key].l # <<>>

\* a test result appended to results
TestResult(key, state, detail) == [key |-> key, state |-> state, detail |-> detail]

\* the function returned the list, or an exception that is no NMOSTestException left it
ReturnedResults(list) == [raised |-> FALSE, list |-> list]

RaisedError == [raised |-> TRUE, list |-> <<>>]

\* lines 255-270 for one key: the results it may append; RaisedError when an exception
\* that line 269 does not catch leaves the function
CheckDefinition(refs, descs, schemas, schema_name, key) ==
    IF ~HasDescriptor(descs, key) THEN {TestResult(key, "UNCLEAR", Ok)}
    ELSE IF schema_name \notin DOMAIN schemas THEN {RaisedError}
    ELSE LET checked == ValidateSchema(descs[key], schemas[schema_name], <<>>)
         IN  IF ~checked.ok THEN {TestResult(key, "FAIL", checked)}
             ELSE { IF o.ok THEN TestResult(key, "PASS", Ok)
                    ELSE IF o.kind = "PythonError" THEN RaisedError
                    ELSE TestResult(key, "FAIL", o) :
                    o \in ValidateDescriptor(refs[key], descs[key], <<>>) }

RECURSIVE ValidateModelDefinitionsFrom(_, _, _, _, _, _)
\* the loop of lines 254-270 from the i-th sorted key on, with the results so far
ValidateModelDefinitionsFrom(refs, descs, schemas, schema_name, i, list) ==
    LET keys == SortedKeys(DOMAIN refs)
    IN  IF i > Len(keys) THEN {ReturnedResults(list)}
        ELSE UNION { IF r = RaisedError THEN {RaisedError}
                     ELSE ValidateModelDefinitionsFrom(refs, descs, schemas, schema_name,
                                                       i + 1, Append(list, r)) :
                     r \in CheckDefinition(refs, descs, schemas, schema_name, keys[i]) }

\* the name of the schema the descriptors are checked against
SchemaName == "NcDatatypeDescriptor"

\* the descriptors of the model: a scalar member and a member that is null or a dictionary
DefinitionChoices ==
    { Dict([parentType |-> Scalar(v), constraints |-> c]) :
        v \in {"1", "2"}, c \in {Scalar("null"), Dict([maximum |-> Scalar("1")])} }

\* the dictionaries of descriptors by key
DescriptorTables ==
    UNION { [K -> DefinitionChoices] : K \in SUBSET {DefinitionKeys[i] : i \in 1..MaxKeys} }

\* self.datatype_schemas: no schema of that name, a false one, one that is not well formed,
\* one that accepts every descriptor, one that accepts those of parentType "1" only
SchemaTables ==
    { [n \in {} |-> None] }
    \cup { [n \in {SchemaName} |-> sc] :
            sc \in { None, Some(Schema(FALSE, {})), Some(Schema(TRUE, DefinitionChoices)),
                     Some(Schema(TRUE, {x \in DefinitionChoices :
                                           x.d["parentType"] = Scalar("1")})) } }

\* one call of validate_model_definitions(descriptors, schema_name, reference_descriptors)
ValidateModelDefinitions ==
    /\ pc = "definitions"
    /\ results' \in { Some(r) : r \in ValidateModelDefinitionsFrom(
                                          reference_descriptors, descriptors,
                                          datatype_schemas, SchemaName, 1, <<>>) }
    /\ pc' = "defined"
    /\ UNCHANGED <<reference_descriptors, descriptors, datatype_schemas>>
    /\ UNCHANGED <<device, value, writes, constrained_properties, selected_properties,
                   idx, constraints, constraint_type, parameter_constraint, original_value,
                   new_value, neg, constraint_error, constraint_error_msg, result>>
    /\ UNCHANGED <<graphVars, validatorVars, managerVars>>

DefinitionsInit ==
    /\ reference_descriptors \in DescriptorTables
    /\ descriptors \in DescriptorTables
    /\ datatype_schemas \in SchemaTables
    /\ results = None
    /\ pc = "definitions"
    /\ device = None
    /\ ProbeIdle
    /\ GraphIdle
    /\ ValidatorIdle
    /\ ManagerIdle

DefinitionsNext == ValidateModelDefinitions

SpecDefinitions == DefinitionsInit /\ [][DefinitionsNext]_vars

\* what the checks of one key come to when each is made on its own: the schema check,
\* then the structural check
SchemaCheckFails(key) ==
    \/ SchemaName \notin DOMAIN datatype_schemas
    \/ ~ValidateSchema(descriptors[key], datatype_schemas[SchemaName], <<>>).ok

StructuralCheckFails(key) ==
    Ok \notin ValidateDescriptor(reference_descriptors[key], descriptors[key], <<>>)

ExpectedState(key) ==
    IF key \notin DOMAIN descriptors THEN "UNCLEAR"
    ELSE IF SchemaCheckFails(key) \/ StructuralCheckFails(key) THEN "FAIL"
    ELSE "PASS"

\* C11: validate_model_definitions returns one result per reference key, in the order of
\* the sorted keys: UNCLEAR for a key without observed descriptor, FAIL when its schema
\* check or its structural check fails, PASS otherwise; no key's failure keeps another
\* key from being checked.
C11_OneResultPerReferenceKey ==
    pc = "defined" =>
        LET keys == SortedKeys(DOMAIN reference_descriptors)
        IN  /\ ~results[1].raised
            /\ Len(results[1].list) = Len(keys)
            /\ \A i \in 1..Len(keys) :
                  /\ results[1].list[i].key = keys[i]
                  /\ results[1].list[i].state = ExpectedState(keys[i])

(***************************************************************************)
(* get_manager.  The devices are chains of blocks, each block holding a    *)
(* worker and possibly a class manager, of class NcClassManager itself or  *)
(* of a class derived from it.                                             *)
(***************************************************************************)
DerivedManagerClassId == <<1, 3, 2, 0, 1>>

NCDEVICEMANAGER == <<1, 3, 1>>

\* the class ids get_manager is asked for
ManagerClassIds == {NCCLASSMANAGER, DerivedManagerClassId, NCDEVICEMANAGER}

ManagerDevice(d, kinds) ==
    [members |->
        [b \in {BlockOid(i) : i \in 0..d} |->
            LET i == (b - 1) \div 100
            IN  (IF kinds[i] = "none" THEN <<>>
                 ELSE <<MemberDescriptor(ManagerOidIn(i),
                                         IF kinds[i] = "exact" THEN NCCLASSMANAGER
                                         ELSE DerivedManagerClassId,
                                         "ClassManager")>>)
                \o (IF i < d
                    THEN <<MemberDescriptor(BlockOid(i + 1), NCBLOCK, "block")>>
                    ELSE <<MemberDescriptor(WorkerOidIn(i), NcWorkerClassId, "worker")>>)],
     managers |-> {ManagerOidIn(i) : i \in {j \in 0..d : kinds[j] # "none"}},
     controlClasses |-> <<[name |-> "NcObject", classId |-> Some(<<1>>)]>>,
     datatypes |-> <<[name |-> "NcOid", classId |-> None]>>]

ManagerDevices ==
    UNION { { ManagerDevice(d, kinds) : kinds \in [0..d -> {"none", "exact", "derived"}] } :
            d \in 0..MaxDepth }

\* NcObject class id test of find_members_by_class_id: equal, or derived when asked for
MatchesClassId(object_class_id, class_id, include_derived) ==
    \/ object_class_id = class_id
    \/ /\ include_derived
       /\ Len(object_class_id) > Len(class_id)
       /\ SubSeq(object_class_id, 1, Len(class_id)) = class_id

RECURSIVE FindMembersByClassId(_, _, _)
\* NcBlock.find_members_by_class_id: the matching descendants, depth first in the order
\* of child_objects
FindMembersByClassId(block, class_id, include_derived) ==
    Flatten([i \in 1..Len(block.child_objects) |->
               LET child_object == block.child_objects[i]
               IN  (IF MatchesClassId(child_object.class_id, class_id, include_derived)
                    THEN <<child_object>> ELSE <<>>)
                   \o (IF child_object.kind = "block"
                       THEN FindMembersByClassId(child_object, class_id, include_derived)
                       ELSE <<>>)])

\* a faulty variant of ManagerOf: the first match is returned whatever their number
ManagerOfFirst(members) ==
    IF Len(members) = 0 THEN Returned("FAIL", "Manager not found in Root Block.")
    ELSE Returned("OK", members[1])

\* lines 340-346: the manager among the members found, or the failure raised
ManagerOf(members) ==
    IF Len(members) = 0 THEN Returned("FAIL", "Manager not found in Root Block.")
    ELSE IF Len(members) > 1 THEN Returned("FAIL", "Manager MUST be a singleton.")
    ELSE Returned("OK", members[1])

\* query_device_model (lines 320-330) as get_manager calls it: the graph, the metadata
\* and what it returns or raises
QueriedDeviceModel(dev, model, metadata, fails) ==
    IF model = None
    THEN LET made == NcObjectFactory(dev, fails, NCBLOCK, ROOT_BLOCK_OID, "root")
             recorded == [metadata EXCEPT !.error = @ \/ made.error_msg # <<>>,
                                          !.error_msg = @ \o made.error_msg]
         IN  [device_model |-> made.object, device_model_metadata |-> recorded,
              returned |-> IF made.object = None
                           THEN Returned("FAIL", recorded.error_msg)
                           ELSE Returned("OK", made.object)]
    ELSE [device_model |-> model, device_model_metadata |-> metadata,
          returned |-> Returned("OK", model)]

\* what get_manager(test, class_id) came to
ManagerResult(class_id, returned) == [class_id |-> class_id, returned |-> returned]

\* get_manager (lines 332-346), the device failing the fetches in fails
GetManager ==
    /\ pc = "manager"
    /\ queries < MaxQueries
    /\ queries' = queries + 1
    /\ \E fails \in { f \in SUBSET FetchesOf(device) :
                        /\ Cardinality(f) <= MaxFails
                        /\ device_model # None => f = {} } :
          LET queried == QueriedDeviceModel(device, device_model, device_model_metadata,
                                            fails)
          IN  /\ device_model' = queried.device_model
              /\ device_model_metadata' = queried.device_model_metadata
              /\ query_result' = queried.returned
              /\ \E class_id \in ManagerClassIds :
                    manager' =
                        ManagerResult(class_id,
                            IF device_model' = None
                            THEN Returned("FAIL", "Unable to query Device Model")
                            ELSE ManagerOf(FindMembersByClassId(device_model'[1],
                                                                class_id, TRUE)))
    /\ UNCHANGED <<device, value, writes, pc, constrained_properties, selected_properties,
                   idx, constraints, constraint_type, parameter_constraint, original_value,
                   new_value, neg, constraint_error, constraint_error_msg, result>>
    /\ UNCHANGED <<validatorVars, definitionVars>>

ManagerInit ==
    /\ device \in ManagerDevices
    /\ pc = "manager"
    /\ ProbeIdle
    /\ GraphIdle
    /\ ValidatorIdle
    /\ DefinitionsIdle
    /\ ManagerIdle

ManagerNext == GetManager

SpecManager == ManagerInit /\ [][ManagerNext]_vars

RECURSIVE Descendants(_)
\* the nodes below a node of the graph, at any depth
Descendants(node) ==
    UNION { {node.child_objects[i]} \cup Descendants(node.child_objects[i]) :
            i \in 1..Len(node.child_objects) }

\* the nodes of the graph whose class is the one asked for or derived from it
Matches(class_id) ==
    { n \in Descendants(device_model[1]) :
        /\ Len(n.class_id) >= Len(class_id)
        /\ \A i \in 1..Len(class_id) : n.class_id[i] = class_id[i] }

\* C12: get_manager returns a node only when exactly one node of the device graph, at
\* any depth, is of the class asked for or of a class derived from it, and then returns
\* that node; it fails with 'Manager not found' when there is none and with 'Manager MUST
\* be a singleton' when there are several.
C12_ManagerIsSingleton ==
    (manager # NoResult /\ device_model # None) =>
        LET matches == Matches(manager.class_id)
        IN  /\ manager.returned.outcome = "OK" <=> Cardinality(matches) = 1
            /\ manager.returned.outcome = "OK" => manager.returned.msg \in matches
            /\ Cardinality(matches) = 0 =>
                  manager.returned = Returned("FAIL", "Manager not found in Root Block.")
            /\ Cardinality(matches) > 1 =>
                  manager.returned = Returned("FAIL", "Manager MUST be a singleton.")

\* C12 witness: the graph holds the class manager in a nested block and a manager of a
\* derived class as well; asked for the derived class, get_manager returned the latter
C12_Witness ==
    /\ manager # NoResult
    /\ device_model # None
    /\ manager.class_id = DerivedManagerClassId
    /\ manager.returned.outcome = "OK"
    /\ Cardinality(Matches(NCCLASSMANAGER)) > 1
    /\ \E n \in Matches(NCCLASSMANAGER) : n.oid > 100

(***************************************************************************)
(* Properties of _findConstrainedProperties (specification Spec).          *)
(***************************************************************************)
\* the requests the device failed during the traversal of test_01
FailedRequests ==
    IF result.outcome = "EXCEPTION" /\ result.msg[1] = "_findConstrainedProperties"
    THEN result.msg[2] ELSE {}

\* the properties _findConstrainedProperties made a record of
RecordedKeys == { KeyOf(constrained_properties[j]) : j \in 1..Len(constrained_properties) }

\* C13: a device request that fails for one member during _findConstrainedProperties is
\* confined to that member: the records of every member none of whose requests failed
\* are still produced.
C13_FailureConfinedToMember ==
    pc # "start" =>
        \A b \in DOMAIN device.members : \A i \in 1..Len(device.members[b]) :
            LET member == device.members[b][i]
                records == MemberRecords(device, member, <<>>)
            IN  ( /\ <<"get_member_descriptors", b>> \notin FailedRequests
                  /\ <<"get_control_class", member.oid>> \notin FailedRequests
                  /\ <<"get_property", member.oid>> \notin FailedRequests )
                => \A j \in 1..Len(records) : KeyOf(records[j]) \in RecordedKeys

\* the traversal of test_01 returned its records
Traversed == pc # "start" /\ FailedRequests = {}

\* the (block, member, class property) triples of the device
MemberProperties ==
    { <<b, i, p>> \in (DOMAIN device.members) \X (1..(MaxMembers + 2)) \X (1..2) :
        /\ i <= Len(device.members[b])
        /\ p <= Len(device.classes[device.members[b][i].classId].properties) }

MemberOf(t) == device.members[t[1]][t[2]]

PropertyOf(t) == device.classes[MemberOf(t).classId].properties[t[3]]

\* the three sources of a member's property: the constraints of its datatype, its own
\* constraints unless it is read only, a runtime constraint of the member naming it
HasDatatypeSource(t) ==
    /\ PropertyOf(t).typeName # None
    /\ device.datatypes[PropertyOf(t).typeName[1]].constraints # None

HasPropertySource(t) == ~PropertyOf(t).isReadOnly /\ PropertyOf(t).constraints # None

HasRuntimeSource(t) ==
    /\ device.runtime[MemberOf(t).oid] # None
    /\ \E e \in 1..Len(device.runtime[MemberOf(t).oid][1]) :
          device.runtime[MemberOf(t).oid][1][e].propertyId = PropertyOf(t).id

\* the indices of the records made of a member's property
RecordsOf(t) ==
    { j \in 1..Len(constrained_properties) :
        /\ constrained_properties[j].oid = MemberOf(t).oid
        /\ constrained_properties[j].property_id = PropertyOf(t).id }

\* the block a record's member is a member of
BlockOfRecord(j) ==
    CHOOSE b \in DOMAIN device.members :
        \E i \in 1..Len(device.members[b]) :
            device.members[b][i].oid = constrained_properties[j].oid

\* C14: _findConstrainedProperties returns exactly one record for a member's property
\* that has a non empty source (the property's own constraints counting only when it is
\* not read only) and none otherwise, over the members of every block of the graph, and
\* the records of the root block's members precede those of its child block.
C14_RecordIffSomeSource ==
    Traversed =>
        /\ \A t \in MemberProperties :
              Cardinality(RecordsOf(t)) =
                  IF HasDatatypeSource(t) \/ HasPropertySource(t) \/ HasRuntimeSource(t)
                  THEN 1 ELSE 0
        /\ \A j \in 1..Len(constrained_properties) :
              \E t \in MemberProperties : j \in RecordsOf(t)
        /\ \A j, k \in 1..Len(constrained_properties) :
              (BlockOfRecord(j) = ROOT_BLOCK_OID /\ BlockOfRecord(k) # ROOT_BLOCK_OID)
              => j < k

\* C14 witness: records of members of the root block and of its child block, one of them
\* of a read only property
C14_Witness ==
    /\ Traversed
    /\ \E j, k \in 1..Len(constrained_properties) :
          BlockOfRecord(j) = ROOT_BLOCK_OID /\ BlockOfRecord(k) # ROOT_BLOCK_OID
    /\ \E t \in MemberProperties : PropertyOf(t).isReadOnly /\ RecordsOf(t) # {}

(***************************************************************************)
(* The legal value of _check_parameter_constraints_number.                 *)
(***************************************************************************)
\* the legal number has been computed and written for the record being probed
LegalNumberWritten ==
    /\ parameter_constraint.constraint_type = "NcParameterConstraintsNumber"
    /\ pc \in {"number_minimum", "number_maximum", "number_step", "reset"}

\* C15: the legal value written first satisfies the constraint it was derived from: with
\* minimum <= maximum and step >= 1 (an undeclared minimum being 0, an undeclared maximum
\* sys.maxsize, an undeclared step 1), minimum <= value <= maximum and value - minimum is
\* a whole multiple of step.
C15_LegalValueSatisfiesConstraint ==
    LegalNumberWritten =>
        LET c == constraints[1]
            minimum == IF c.minimum # None THEN c.minimum[1] ELSE 0
            maximum == IF c.maximum # None THEN c.maximum[1] ELSE SysMaxsize
            step == IF c.step # None THEN c.step[1] ELSE 1
        IN  (minimum <= maximum /\ step >= 1) =>
                /\ minimum <= new_value
                /\ new_value <= maximum
                /\ (new_value - minimum) % step = 0

(***************************************************************************)
(* Blocks without members in the graph nc_object_factory builds.           *)
(***************************************************************************)
\* query_device_model has been called and no call of get_property has failed so far
QueriedWithoutFetchError ==
    /\ query_result # NoResult
    /\ device_model_metadata.error_msg = <<>>

\* the blocks of the device whose member list is empty
EmptyBlocks == { b \in DOMAIN device.members : device.members[b] = <<>> }

\* C16: a block whose member list is fetched successfully and is empty is built as a block
\* node with zero children and attached to its parent, and a root block with no members
\* makes query_device_model succeed: with every fetch successful the query returns the
\* graph and every block without members is a node of it with no children.
C16_EmptyBlockIsBuilt ==
    QueriedWithoutFetchError =>
        /\ query_result.outcome = "OK"
        /\ \A b \in EmptyBlocks :
              \E n \in {device_model[1]} \cup Descendants(device_model[1]) :
                 /\ n.oid = b
                 /\ n.kind = "block"
                 /\ n.child_objects = <<>>

====
